---- MODULE Spec2Model ----
(***************************************************************************)
(* A model of the humandns53 DNS responder (src/dnsserver.go).             *)
(*                                                                         *)
(* Go strings and byte slices are sequences of octets (0..255).  A nil or  *)
(* empty slice is the empty sequence.  A goroutine that panics terminates  *)
(* the whole process (there is no recover in the program).                 *)
(***************************************************************************)
EXTENDS Integers, Sequences, FiniteSets, TLC

VARIABLES
    ExpiryTimeInSeconds,  \* the server-wide expiry flag (a Go uint)
    crashed,              \* TRUE once a goroutine has panicked: the process is gone
    req,                  \* req[h]: the state of the request goroutine in slot h
    cName,                \* name codec round trip: the domain name
    cBuf,                 \* name codec round trip: the buffer
    cOut,                 \* name codec round trip: what readDomainName returned
    cPc                   \* name codec round trip: position

vars == <<ExpiryTimeInSeconds, crashed, req, cName, cBuf, cOut, cPc>>

---------------------------------------------------------------------------
(* Text literals: a TLA+ string as the sequence of its ASCII codes.        *)

Lower == <<"a","b","c","d","e","f","g","h","i","j","k","l","m",
           "n","o","p","q","r","s","t","u","v","w","x","y","z">>

Digits == <<"0","1","2","3","4","5","6","7","8","9">>

Ord(c) ==
    IF \E i \in 1..26 : Lower[i] = c
    THEN 96 + (CHOOSE i \in 1..26 : Lower[i] = c)
    ELSE IF \E i \in 1..10 : Digits[i] = c
    THEN 47 + (CHOOSE i \in 1..10 : Digits[i] = c)
    ELSE IF c = "." THEN 46
    ELSE IF c = ":" THEN 58
    ELSE 45

RECURSIVE S(_)
S(s) == IF s = "" THEN <<>> ELSE <<Ord(Head(s))>> \o S(Tail(s))

Fill(n, b) == [i \in 1..n |-> b]

Min(a, b) == IF a < b THEN a ELSE b

---------------------------------------------------------------------------
(* Program constants.                                                      *)

TypeA == 1
TypeAAAA == 28
ClassINET == 1
FlagResponse == 32768
UDPMaxMessageSizeBytes == 512

---------------------------------------------------------------------------
(* bytes.Buffer: a buffer is the sequence of its unread bytes.             *)

\* Buffer.Next(n): the next n bytes, or fewer when the buffer holds fewer.
BufNext(buf, n) == SubSeq(buf, 1, Min(n, Len(buf)))

BufSkip(buf, n) == SubSeq(buf, Min(n, Len(buf)) + 1, Len(buf))

\* binary.BigEndian.Uint16 of a two-byte slice (it panics on a shorter one).
Uint16(b) == b[1] * 256 + b[2]

---------------------------------------------------------------------------
(* strings.Split and strings.Contains.                                     *)

\* The position of the k-th separator of s; 0 for k = 0, Len(s) + 1 past the last.
SepAt(s, sep, k) ==
    LET P == {i \in 1..Len(s) : s[i] = sep}
    IN  IF k = 0 THEN 0
        ELSE IF k > Cardinality(P) THEN Len(s) + 1
        ELSE CHOOSE i \in P : Cardinality({j \in P : j < i}) = k - 1

Split(s, sep) ==
    LET n == Cardinality({i \in 1..Len(s) : s[i] = sep})
    IN  [k \in 1..(n + 1) |-> SubSeq(s, SepAt(s, sep, k - 1) + 1, SepAt(s, sep, k) - 1)]

Contains(s, sub) ==
    \E i \in 0..(Len(s) - Len(sub)) : SubSeq(s, i + 1, i + Len(sub)) = sub

---------------------------------------------------------------------------
(* net.ParseIP: the 16-byte form of an IPv4 or IPv6 literal, or nil.       *)

IsDigit(c) == c \in 48..57

IsHex(c) == c \in 48..57 \/ c \in 97..102 \/ c \in 65..70

HexVal(c) == IF c \in 48..57 THEN c - 48
             ELSE IF c \in 97..102 THEN c - 87
             ELSE c - 55

RECURSIVE DecValue(_, _)
DecValue(f, acc) ==
    IF f = <<>> THEN acc ELSE DecValue(Tail(f), acc * 10 + (Head(f) - 48))

\* One dotted-decimal field: digits only, at most 255, no leading zero.
OctetOK(f) ==
    /\ Len(f) \in 1..3
    /\ \A i \in 1..Len(f) : IsDigit(f[i])
    /\ DecValue(f, 0) <= 255
    /\ (Len(f) > 1 => f[1] # 48)

\* The four octets of a dotted-decimal literal, or << >>.
parseIPv4Octets(s) ==
    LET fs == Split(s, 46)
    IN  IF Len(fs) = 4 /\ \A i \in 1..4 : OctetOK(fs[i])
        THEN [i \in 1..4 |-> DecValue(fs[i], 0)]
        ELSE <<>>

parseIPv4(s) ==
    LET o == parseIPv4Octets(s)
    IN  IF o = <<>> THEN <<>> ELSE Fill(10, 0) \o <<255, 255>> \o o

RECURSIVE HexLen(_)
HexLen(s) == IF s # <<>> /\ IsHex(Head(s)) THEN 1 + HexLen(Tail(s)) ELSE 0

RECURSIVE HexValue(_, _)
HexValue(f, acc) ==
    IF f = <<>> THEN acc ELSE HexValue(Tail(f), acc * 16 + HexVal(Head(f)))

\* The end of parseIPv6: the whole string is used, the ellipsis is expanded.
parseIPv6Finish(s, i, ip, ellipsis) ==
    IF s # <<>> THEN <<>>
    ELSE IF i < 16 THEN
        IF ellipsis < 0 THEN <<>>
        ELSE SubSeq(ip, 1, ellipsis) \o Fill(16 - i, 0) \o SubSeq(ip, ellipsis + 1, i)
    ELSE IF ellipsis >= 0 THEN <<>>
    ELSE ip

RECURSIVE parseIPv6Loop(_, _, _, _)
parseIPv6Loop(s, i, ip, ellipsis) ==
    IF i >= 16 THEN parseIPv6Finish(s, i, ip, ellipsis)
    ELSE
    LET c == HexLen(s)
        n == HexValue(SubSeq(s, 1, c), 0)
    IN  IF c = 0 \/ c > 4 THEN <<>>
        ELSE IF c < Len(s) /\ s[c + 1] = 46 THEN
            \* a trailing dotted-decimal IPv4 address
            IF (ellipsis < 0 /\ i # 12) \/ i + 4 > 16 \/ parseIPv4Octets(s) = <<>>
            THEN <<>>
            ELSE parseIPv6Finish(<<>>, i + 4,
                                 SubSeq(ip, 1, i) \o parseIPv4Octets(s)
                                     \o SubSeq(ip, i + 5, 16),
                                 ellipsis)
        ELSE
        LET ip2 == [ip EXCEPT ![i + 1] = n \div 256, ![i + 2] = n % 256]
            s2 == SubSeq(s, c + 1, Len(s))
        IN  IF s2 = <<>> THEN parseIPv6Finish(s2, i + 2, ip2, ellipsis)
            ELSE IF s2[1] # 58 \/ Len(s2) = 1 THEN <<>>
            ELSE IF s2[2] = 58 THEN
                IF ellipsis >= 0 THEN <<>>
                ELSE IF Len(s2) = 2
                THEN parseIPv6Finish(<<>>, i + 2, ip2, i + 2)
                ELSE parseIPv6Loop(SubSeq(s2, 3, Len(s2)), i + 2, ip2, i + 2)
            ELSE parseIPv6Loop(Tail(s2), i + 2, ip2, ellipsis)

parseIPv6(s) ==
    IF Len(s) >= 2 /\ s[1] = 58 /\ s[2] = 58
    THEN IF Len(s) = 2 THEN Fill(16, 0)
         ELSE parseIPv6Loop(SubSeq(s, 3, Len(s)), 0, Fill(16, 0), 0)
    ELSE parseIPv6Loop(s, 0, Fill(16, 0), -1)

\* The first '.' or ':' of the literal decides the family.
RECURSIVE ParseIPFrom(_, _)
ParseIPFrom(s, i) ==
    IF i > Len(s) THEN <<>>
    ELSE IF s[i] = 46 THEN parseIPv4(s)
    ELSE IF s[i] = 58 THEN parseIPv6(s)
    ELSE ParseIPFrom(s, i + 1)

ParseIP(s) == ParseIPFrom(s, 1)

---------------------------------------------------------------------------
(* Unsigned integers wider than the checker's integers are kept as their   *)
(* big-endian octets: a Go uint is 8 octets, a uint32 is 4 octets.         *)

Uint32Of(n) == <<n \div 16777216, (n \div 65536) % 256, (n \div 256) % 256, n % 256>>

UintOf(hi, lo) == Uint32Of(hi) \o Uint32Of(lo)

\* The conversion uint32(x) of a uint: the low 32 bits.
ToUint32(x) == SubSeq(x, 5, 8)

---------------------------------------------------------------------------
(* The records of the program.                                             *)

DNSHeader(id, flags, nq, nan, nns, nar) ==
    [TransactionID |-> id, Flags |-> flags, NumQuestions |-> nq,
     NumAnswers |-> nan, NumAuthorities |-> nns, NumAdditionals |-> nar]

ZeroHeader == DNSHeader(0, 0, 0, 0, 0, 0)

DNSResourceRecord(name, type, class, ttl, rdlength, rdata) ==
    [DomainName |-> name, Type |-> type, Class |-> class, TimeToLive |-> ttl,
     ResourceDataLength |-> rdlength, ResourceData |-> rdata]

\* A record of make([]DNSResourceRecord, n) with the name, type and class set.
QueryRecord(name, type, class) ==
    DNSResourceRecord(name, type, class, Uint32Of(0), 0, <<>>)

---------------------------------------------------------------------------
(* dbLookup.  val is what redisClient.Get(...).Val() returns when the      *)
(* lookup consults the store.  The result names a panic when the code      *)
(* slices the nil address.                                                 *)

LookupResult(panic, an, ns, ar) ==
    [panic |-> panic, answers |-> an, authorities |-> ns, additionals |-> ar]

NoRecords == LookupResult(FALSE, <<>>, <<>>, <<>>)

\* Whether dbLookup reaches the store GET for this query.
ConsultsStore(q) ==
    q.Class = ClassINET /\ (q.Type = TypeA \/ q.Type = TypeAAAA)

\* ipv4Data with the first four bytes of the 16-byte address taken instead.
ipv4DataFirstFour(parsedAddress) == SubSeq(parsedAddress, 1, 4)

\* The data of a type A record: the last four bytes of the parsed address.
ipv4Data(parsedAddress) == SubSeq(parsedAddress, 13, 16)

\* The branch for a name that contains "ip4".  Slicing a nil address panics.
ip4Result(q, parsedAddress, ttl) ==
    IF q.Type = TypeA THEN
        IF Len(parsedAddress) < 16
        THEN LookupResult(TRUE, <<>>, <<>>, <<>>)
        ELSE LookupResult(FALSE,
                <<DNSResourceRecord(q.DomainName, TypeA, ClassINET, ttl,
                                    4, ipv4Data(parsedAddress))>>,
                <<>>, <<>>)
    ELSE NoRecords

\* ip6Result with the record put in the answer section whatever the type.
ip6ResultAlwaysAnswer(q, parsedAddress, ttl) ==
    LookupResult(FALSE,
        <<DNSResourceRecord(q.DomainName, TypeAAAA, ClassINET, ttl,
                            16, parsedAddress)>>,
        <<>>, <<>>)

\* The branch for a name that contains "ip6" and not "ip4".
ip6Result(q, parsedAddress, ttl) ==
    IF q.Type = TypeAAAA THEN
        LookupResult(FALSE,
            <<DNSResourceRecord(q.DomainName, TypeAAAA, ClassINET, ttl,
                                16, parsedAddress)>>,
            <<>>, <<>>)
    ELSE
        LookupResult(FALSE, <<>>, <<>>,
            <<DNSResourceRecord(q.DomainName, TypeAAAA, ClassINET, ttl,
                                16, parsedAddress)>>)

\* isMiss with the check for a miss left out.
isMissNever(val) == FALSE

\* The store has no value for the name.
isMiss(val) == val = <<>>

dbLookup(q, val) ==
    IF q.Class # ClassINET THEN NoRecords
    ELSE IF q.Type = TypeA \/ q.Type = TypeAAAA THEN
        IF isMiss(val) THEN NoRecords
        ELSE
        LET parsedAddress == ParseIP(val)
            ttl == ToUint32(ExpiryTimeInSeconds)
        IN  IF Contains(q.DomainName, S("ip4")) THEN ip4Result(q, parsedAddress, ttl)
            ELSE IF Contains(q.DomainName, S("ip6")) THEN ip6Result(q, parsedAddress, ttl)
            ELSE NoRecords
    ELSE NoRecords

---------------------------------------------------------------------------
(* The name codec.                                                         *)

\* Buffer.ReadByte: the byte and the rest, or io.EOF on an empty buffer.
ReadByte(buf) ==
    IF buf = <<>> THEN [b |-> 0, err |-> TRUE, buf |-> <<>>]
    ELSE [b |-> Head(buf), err |-> FALSE, buf |-> Tail(buf)]

RECURSIVE readDomainNameLoop(_, _)
readDomainNameLoop(rb, domainName) ==
    IF rb.b # 0 /\ ~rb.err THEN
        LET labelName == BufNext(rb.buf, rb.b)
            rest == BufSkip(rb.buf, rb.b)
        IN  readDomainNameLoop(ReadByte(rest),
                IF Len(domainName) = 0 THEN labelName
                ELSE domainName \o <<46>> \o labelName)
    ELSE [name |-> domainName, err |-> rb.err, buf |-> rb.buf]

readDomainName(requestBuffer) == readDomainNameLoop(ReadByte(requestBuffer), <<>>)

RECURSIVE writeLabels(_, _)
writeLabels(responseBuffer, labels) ==
    IF labels = <<>> THEN responseBuffer
    ELSE writeLabels(responseBuffer \o <<Len(Head(labels)) % 256>> \o Head(labels),
                     Tail(labels))

writeDomainName(responseBuffer, domainName) ==
    writeLabels(responseBuffer, Split(domainName, 46)) \o <<0>>

---------------------------------------------------------------------------
(* Write: the big-endian serialisation helper that handleDNSClient calls.  *)

WriteUint16(buf, v) == buf \o <<(v \div 256) % 256, v % 256>>

WriteUint32(buf, v) == buf \o v

WriteBytes(buf, b) == buf \o b

WriteHeader(buf, h) ==
    WriteUint16(WriteUint16(WriteUint16(WriteUint16(WriteUint16(WriteUint16(buf,
        h.TransactionID), h.Flags), h.NumQuestions), h.NumAnswers),
        h.NumAuthorities), h.NumAdditionals)

---------------------------------------------------------------------------
(* handleDNSClient, first part: reading the request.                       *)

\* binary.Read of the 12-byte header: the zero header when the buffer is short.
readHeader(requestBytes) ==
    IF Len(requestBytes) >= 12
    THEN DNSHeader(Uint16(SubSeq(requestBytes, 1, 2)), Uint16(SubSeq(requestBytes, 3, 4)),
                   Uint16(SubSeq(requestBytes, 5, 6)), Uint16(SubSeq(requestBytes, 7, 8)),
                   Uint16(SubSeq(requestBytes, 9, 10)), Uint16(SubSeq(requestBytes, 11, 12)))
    ELSE ZeroHeader

DecodeState(panic, buf, records, logged) ==
    [panic |-> panic, buf |-> buf, records |-> records, logged |-> logged]

\* One iteration of the loop over make([]DNSResourceRecord, NumQuestions): the
\* name, then the type and the class.  Uint16 of a slice shorter than two
\* bytes panics.
readQuestion(st) ==
    LET r == readDomainName(st.buf)
        logged2 == IF r.err THEN st.logged + 1 ELSE st.logged
        afterType == BufSkip(r.buf, 2)
    IN  IF Len(r.buf) < 2 \/ Len(afterType) < 2
        THEN DecodeState(TRUE, r.buf, st.records, logged2)
        ELSE DecodeState(FALSE, BufSkip(afterType, 2),
                 Append(st.records, QueryRecord(r.name, Uint16(BufNext(r.buf, 2)),
                                                Uint16(BufNext(afterType, 2)))),
                 logged2)

\* n records are still to be read.
RECURSIVE readQuestions(_, _)
readQuestions(st, n) ==
    IF n = 0 \/ st.panic THEN st ELSE readQuestions(readQuestion(st), n - 1)

decodeRequest(requestBytes) ==
    LET queryHeader == readHeader(requestBytes)
    IN  readQuestions(DecodeState(FALSE, BufSkip(requestBytes, 12), <<>>,
                                  IF Len(requestBytes) >= 12 THEN 0 ELSE 1),
                      queryHeader.NumQuestions)

---------------------------------------------------------------------------
(* handleDNSClient, last part: writing the response.                       *)

\* responseHeader with the record counts copied from the query header.
responseHeaderCopiedCounts(queryHeader, answers, authorities, additionals) ==
    DNSHeader(queryHeader.TransactionID, FlagResponse, queryHeader.NumQuestions,
              queryHeader.NumAnswers, queryHeader.NumAuthorities,
              queryHeader.NumAdditionals)

\* responseHeader with the response bit set on top of the query's flags.
responseHeaderKeptFlags(queryHeader, answers, authorities, additionals) ==
    DNSHeader(queryHeader.TransactionID,
              IF queryHeader.Flags >= FlagResponse THEN queryHeader.Flags
              ELSE queryHeader.Flags + FlagResponse,
              queryHeader.NumQuestions,
              Len(answers) % 65536, Len(authorities) % 65536,
              Len(additionals) % 65536)

responseHeader(queryHeader, answers, authorities, additionals) ==
    DNSHeader(queryHeader.TransactionID, FlagResponse, queryHeader.NumQuestions,
              Len(answers) % 65536, Len(authorities) % 65536,
              Len(additionals) % 65536)

Written(buf, count) == [buf |-> buf, count |-> count]

\* The loop that echoes the question records; count is the records written.
RECURSIVE writeQuestions(_, _)
writeQuestions(w, records) ==
    IF records = <<>> THEN w
    ELSE LET q == Head(records)
         IN  writeQuestions(
                 Written(WriteUint16(WriteUint16(writeDomainName(w.buf, q.DomainName),
                                                 q.Type), q.Class),
                         w.count + 1),
                 Tail(records))

\* The loop that writes one of the answer, authority or additional sections.
RECURSIVE writeRecords(_, _)
writeRecords(w, records) ==
    IF records = <<>> THEN w
    ELSE LET rr == Head(records)
         IN  writeRecords(
                 Written(WriteBytes(WriteUint16(WriteUint32(WriteUint16(WriteUint16(
                             writeDomainName(w.buf, rr.DomainName),
                             rr.Type), rr.Class), rr.TimeToLive),
                             rr.ResourceDataLength), rr.ResourceData),
                         w.count + 1),
                 Tail(records))

\* The encoded response and the number of records written in each section.
encodeResponse(queryHeader, questions, answers, authorities, additionals) ==
    LET hdr == responseHeader(queryHeader, answers, authorities, additionals)
        w0 == WriteHeader(<<>>, hdr)
        wq == writeQuestions(Written(w0, 0), questions)
        wa == writeRecords(Written(wq.buf, 0), answers)
        wn == writeRecords(Written(wa.buf, 0), authorities)
        wr == writeRecords(Written(wn.buf, 0), additionals)
    IN  [header |-> hdr, bytes |-> wr.buf,
         questions |-> wq.count, answers |-> wa.count,
         authorities |-> wn.count, additionals |-> wr.count]

---------------------------------------------------------------------------
(* Bounds and inputs.                                                      *)

\* Request goroutines alive at once under Spec.
MaxInFlight == 1

\* Request goroutines alive at once under SpecConc.
MaxConc == 2

\* Labels of a domain name under SpecCodec.
MaxLabels == 2

\* A question as a client puts it on the wire.
Question(name, type, class) ==
    WriteUint16(WriteUint16(writeDomainName(<<>>, name), type), class)

\* A query datagram: the header as the client wrote it, then the body.
Query(id, flags, nq, nan, body) ==
    WriteHeader(<<>>, DNSHeader(id, flags, nq, nan, 0, 0)) \o body

Datagrams ==
    { Query(4660, 256, 1, 0, Question(S("foo.ip4"), TypeA, ClassINET)),
      Query(4661, 256, 1, 0, Question(S("foo.ip4"), TypeAAAA, ClassINET)),
      Query(4662, 256, 1, 0, Question(S("bar.ip6"), TypeAAAA, ClassINET)),
      Query(4663, 288, 1, 0, Question(S("bar.ip6"), TypeA, ClassINET)),
      Query(4664, 256, 1, 0, Question(S("ip4.ip6"), TypeA, ClassINET)),
      Query(4665, 256, 1, 0, Question(S("www.example"), TypeA, ClassINET)),
      \* class CH, then type MX
      Query(4666, 256, 1, 0, Question(S("foo.ip4"), TypeA, 3)),
      Query(4667, 256, 1, 0, Question(S("bar.ip6"), 15, ClassINET)),
      \* two questions, every flag bit set, a stray answer count
      Query(65535, 65535, 2, 1, Question(S("foo.ip4"), TypeA, ClassINET)
                                 \o Question(S("bar.ip6"), TypeAAAA, ClassINET)),
      \* three questions declared, one present
      Query(4669, 256, 3, 0, Question(S("foo.ip4"), TypeA, ClassINET)),
      \* no question declared, one present
      Query(4670, 256, 0, 0, Question(S("foo.ip4"), TypeA, ClassINET)),
      \* a datagram shorter than a header
      <<18, 63, 1, 0, 0>>,
      \* more questions declared than the receive buffer can hold
      Query(4672, 256, 200, 0, <<>>),
      \* a name whose labels run past the end of the receive buffer
      Query(4673, 256, 1, 0, <<255>> \o Fill(255, 97) \o <<255>> \o Fill(255, 98)) }

\* What the store GET returns: "" on a miss.
Values ==
    { <<>>, S("127.0.0.1"), S("::1"), S("2001:db8::42"), S("notanip"), S("300.1.1.1") }

Clients == { "192.0.2.7:40000" }

\* The --expiry flag: 1800 (the default) and 2^32 + 1800.
Expiries == { UintOf(0, 1800), UintOf(1, 1800) }

ConcDatagrams ==
    { Query(4660, 256, 1, 0, Question(S("foo.ip4"), TypeA, ClassINET)),
      Query(4662, 256, 1, 0, Question(S("bar.ip6"), TypeAAAA, ClassINET)),
      Query(4672, 256, 200, 0, <<>>) }

ConcValues == { <<>>, S("127.0.0.1") }

---------------------------------------------------------------------------
(* The request goroutines.                                                 *)

IdleReq ==
    [pc |-> "idle", requestBytes |-> <<>>, clientAddr |-> "",
     queryHeader |-> ZeroHeader, queryResourceRecords |-> <<>>, logged |-> 0,
     got |-> <<>>,
     answerResourceRecords |-> <<>>, authorityResourceRecords |-> <<>>,
     additionalResourceRecords |-> <<>>,
     response |-> encodeResponse(ZeroHeader, <<>>, <<>>, <<>>, <<>>),
     sent |-> <<>>]

\* ReadFromUDP into make([]byte, UDPMaxMessageSizeBytes): the datagram, cut to
\* the buffer, the rest of the buffer zero.  The whole buffer is handed on.
receiveBuffer(datagram) ==
    LET n == Min(Len(datagram), UDPMaxMessageSizeBytes)
    IN  SubSeq(datagram, 1, n) \o Fill(UDPMaxMessageSizeBytes - n, 0)

codecIdle == /\ cName = <<>> /\ cBuf = <<>> /\ cPc = "off"
             /\ cOut = [name |-> <<>>, err |-> FALSE, buf |-> <<>>]

Init ==
    /\ ExpiryTimeInSeconds \in Expiries
    /\ crashed = FALSE
    /\ req = [h \in 1..MaxInFlight |-> IdleReq]
    /\ codecIdle

InitConc ==
    /\ ExpiryTimeInSeconds = UintOf(0, 1800)
    /\ crashed = FALSE
    /\ req = [h \in 1..MaxConc |-> IdleReq]
    /\ codecIdle

\* main: the receive loop takes a datagram and starts a goroutine for it.  The
\* loop waits for no goroutine; a slot is free once its goroutine has returned.
Receive(h, datagram, client) ==
    /\ ~crashed
    /\ req[h].pc \in {"idle", "done"}
    /\ req' = [req EXCEPT ![h] = [IdleReq EXCEPT !.pc = "decode",
                                     !.requestBytes = receiveBuffer(datagram),
                                     !.clientAddr = client]]
    /\ UNCHANGED <<ExpiryTimeInSeconds, crashed, cName, cBuf, cOut, cPc>>

\* handleDNSClient up to the lookups: the header and the question records.
Decode(h) ==
    /\ ~crashed
    /\ req[h].pc = "decode"
    /\ LET d == decodeRequest(req[h].requestBytes)
           hdr == readHeader(req[h].requestBytes)
       IN  /\ req' = [req EXCEPT ![h].queryHeader = hdr,
                                 ![h].queryResourceRecords = d.records,
                                 ![h].logged = d.logged,
                                 ![h].pc = IF d.panic THEN "panic"
                                           ELSE IF d.records = <<>> THEN "respond"
                                           ELSE "lookup"]
           /\ crashed' = d.panic
    /\ UNCHANGED <<ExpiryTimeInSeconds, cName, cBuf, cOut, cPc>>

\* One iteration of the lookup loop: dbLookup of the next question.  The store
\* GET inside it may block for ever, in which case this step never happens.
Lookup(h, val) ==
    /\ ~crashed
    /\ req[h].pc = "lookup"
    /\ LET idx == Len(req[h].got) + 1
           q == req[h].queryResourceRecords[idx]
           r == dbLookup(q, val)
       IN  /\ (~ConsultsStore(q) => val = <<>>)
           /\ req' = [req EXCEPT
                 ![h].got = Append(@, [consulted |-> ConsultsStore(q), val |-> val]),
                 ![h].answerResourceRecords = @ \o r.answers,
                 ![h].authorityResourceRecords = @ \o r.authorities,
                 ![h].additionalResourceRecords = @ \o r.additionals,
                 ![h].pc = IF r.panic THEN "panic"
                           ELSE IF idx = Len(req[h].queryResourceRecords) THEN "respond"
                           ELSE "lookup"]
           /\ crashed' = r.panic
    /\ UNCHANGED <<ExpiryTimeInSeconds, cName, cBuf, cOut, cPc>>

\* handleDNSClient from the response header to WriteToUDP.
Respond(h) ==
    /\ ~crashed
    /\ req[h].pc = "respond"
    /\ LET e == encodeResponse(req[h].queryHeader, req[h].queryResourceRecords,
                               req[h].answerResourceRecords,
                               req[h].authorityResourceRecords,
                               req[h].additionalResourceRecords)
       IN  req' = [req EXCEPT ![h].response = e,
                              ![h].sent = Append(@, [to |-> req[h].clientAddr,
                                                     bytes |-> e.bytes]),
                              ![h].pc = "done"]
    /\ UNCHANGED <<ExpiryTimeInSeconds, crashed, cName, cBuf, cOut, cPc>>

Next ==
    \/ \E h \in DOMAIN req, d \in Datagrams, c \in Clients : Receive(h, d, c)
    \/ \E h \in DOMAIN req : Decode(h)
    \/ \E h \in DOMAIN req, val \in Values : Lookup(h, val)
    \/ \E h \in DOMAIN req : Respond(h)

Spec == Init /\ [][Next]_vars

NextConc ==
    \/ \E h \in DOMAIN req, d \in ConcDatagrams, c \in Clients : Receive(h, d, c)
    \/ \E h \in DOMAIN req : Decode(h)
    \/ \E h \in DOMAIN req, val \in ConcValues : Lookup(h, val)
    \/ \E h \in DOMAIN req : Respond(h)

SpecConc == InitConc /\ [][NextConc]_vars

---------------------------------------------------------------------------
(* The name codec on its own: a name is written, then read back.           *)

LabelLens == {0, 1, 2, 63, 64, 255, 256, 257}

\* A name of the given label lengths: label i is made of the letter i.
RECURSIVE NameOf(_, _)
NameOf(lens, i) ==
    IF i > Len(lens) THEN <<>>
    ELSE (IF i > 1 THEN <<46>> ELSE <<>>) \o Fill(lens[i], 96 + i) \o NameOf(lens, i + 1)

CodecNames ==
    { NameOf(lens, 1) : lens \in UNION { [1..k -> LabelLens] : k \in 1..MaxLabels } }

InitCodec ==
    /\ ExpiryTimeInSeconds = UintOf(0, 1800)
    /\ crashed = FALSE
    /\ req = <<>>
    /\ cName \in CodecNames
    /\ cBuf = <<>>
    /\ cOut = [name |-> <<>>, err |-> FALSE, buf |-> <<>>]
    /\ cPc = "write"

CodecWrite ==
    /\ cPc = "write"
    /\ cBuf' = writeDomainName(<<>>, cName)
    /\ cPc' = "read"
    /\ UNCHANGED <<ExpiryTimeInSeconds, crashed, req, cName, cOut>>

CodecRead ==
    /\ cPc = "read"
    /\ cOut' = readDomainName(cBuf)
    /\ cPc' = "done"
    /\ UNCHANGED <<ExpiryTimeInSeconds, crashed, req, cName, cBuf>>

NextCodec == CodecWrite \/ CodecRead

SpecCodec == InitCodec /\ [][NextCodec]_vars

---------------------------------------------------------------------------
(* Properties.                                                             *)

Slots == DOMAIN req

\* The goroutine in slot h has written its response.
Responded(h) == req[h].pc = "done"

\* The header as a client reads it off the response datagram.
WireHeader(h) == readHeader(req[h].sent[1].bytes)

\* The questions of slot h whose lookup has returned.
Looked(h) == 1..Len(req[h].got)

\* The records slot h has gathered so far, all three sections.
Gathered(h) ==
    req[h].answerResourceRecords \o req[h].authorityResourceRecords
        \o req[h].additionalResourceRecords

\* The goroutine in slot h panicked while it read the request.
DecodePanic(h) == req[h].pc = "panic" /\ req[h].got = <<>>

\* C1: in every response written, the four header counts equal the number of
\* records written in the question, answer, authority and additional sections,
\* also when the query's NumQuestions is not the number of questions present.
C1_HeaderCountsMatchWritten ==
    \A h \in Slots : Responded(h) =>
        /\ Len(req[h].sent) = 1
        /\ WireHeader(h) = req[h].response.header
        /\ WireHeader(h).NumQuestions = req[h].response.questions
        /\ WireHeader(h).NumAnswers = req[h].response.answers
        /\ WireHeader(h).NumAuthorities = req[h].response.authorities
        /\ WireHeader(h).NumAdditionals = req[h].response.additionals

\* A response to the query that declares three questions and carries one, and
\* a response to the query whose header claims an answer it does not carry.
C1_Witness ==
    \E h \in Slots :
        /\ Responded(h)
        /\ req[h].queryHeader.NumQuestions = 3
        /\ req[h].response.questions = 3
        /\ req[h].response.answers = 1

\* C2: a decode error is only logged: no datagram makes the handler abort
\* while it reads the request, and a handler that has finished has written
\* exactly one response.
C2_DecodeNeverAborts ==
    \A h \in Slots :
        /\ ~DecodePanic(h)
        /\ (Responded(h) => Len(req[h].sent) = 1)

\* C3: a non-empty stored value that is no IP literal is a miss: the lookup
\* returns three empty lists and the request goes on.
C3_UnparseableIsMiss ==
    \A h \in Slots : \A i \in Looked(h) :
        (req[h].got[i].consulted /\ req[h].got[i].val # <<>>
            /\ ParseIP(req[h].got[i].val) = <<>>)
        => dbLookup(req[h].queryResourceRecords[i], req[h].got[i].val) = NoRecords

\* The lookups of the claim C4: class IN, type A, a name with "ip4" in it and
\* an IPv4 literal in the store.
IsIp4Hit(h, i) ==
    /\ req[h].queryResourceRecords[i].Class = ClassINET
    /\ req[h].queryResourceRecords[i].Type = TypeA
    /\ Contains(req[h].queryResourceRecords[i].DomainName, S("ip4"))
    /\ parseIPv4Octets(req[h].got[i].val) # <<>>

\* What C4 says of such a lookup, but for the time to live.
Ip4Answer(h, i) ==
    LET q == req[h].queryResourceRecords[i]
        r == dbLookup(q, req[h].got[i].val)
    IN  /\ ~r.panic
        /\ Len(r.answers) = 1
        /\ r.answers[1].DomainName = q.DomainName
        /\ r.answers[1].Type = TypeA
        /\ r.answers[1].Class = ClassINET
        /\ r.answers[1].ResourceDataLength = 4
        /\ r.answers[1].ResourceData = parseIPv4Octets(req[h].got[i].val)
        /\ r.authorities = <<>>
        /\ r.additionals = <<>>

\* C4 as stated: one type A answer with the four octets of the stored address
\* and a time to live equal to the configured expiry.
C4_Ip4AnswerTtlIsExpiry ==
    \A h \in Slots : \A i \in Looked(h) : IsIp4Hit(h, i) =>
        /\ Ip4Answer(h, i)
        /\ Uint32Of(0) \o dbLookup(req[h].queryResourceRecords[i],
                                   req[h].got[i].val).answers[1].TimeToLive
               = ExpiryTimeInSeconds

\* C4 amended: one type A answer with the four octets of the stored address
\* and a time to live equal to the low 32 bits of the configured expiry (the
\* expiry itself when it is below 2^32).
C4_Ip4AnswerTtlIsExpiryMod32 ==
    \A h \in Slots : \A i \in Looked(h) : IsIp4Hit(h, i) =>
        /\ Ip4Answer(h, i)
        /\ dbLookup(req[h].queryResourceRecords[i],
                    req[h].got[i].val).answers[1].TimeToLive
               = ToUint32(ExpiryTimeInSeconds)
        /\ (SubSeq(ExpiryTimeInSeconds, 1, 4) = Uint32Of(0)
              => Uint32Of(0) \o dbLookup(req[h].queryResourceRecords[i],
                                         req[h].got[i].val).answers[1].TimeToLive
                     = ExpiryTimeInSeconds)

\* foo.ip4 looked up as IN A with 127.0.0.1 in the store, the answer written.
C4_Witness ==
    \E h \in Slots :
        /\ Responded(h)
        /\ Len(req[h].got) = 1
        /\ IsIp4Hit(h, 1)
        /\ req[h].got[1].val = S("127.0.0.1")
        /\ req[h].answerResourceRecords[1].ResourceData = <<127, 0, 0, 1>>
        /\ ExpiryTimeInSeconds = UintOf(0, 1800)

\* What C5 says of a lookup: no answer, no authority, only AAAA additionals.
NoAnswerForA(h, i) ==
    LET r == dbLookup(req[h].queryResourceRecords[i], req[h].got[i].val)
    IN  /\ ~r.panic
        /\ r.answers = <<>>
        /\ r.authorities = <<>>
        /\ \A k \in 1..Len(r.additionals) : r.additionals[k].Type = TypeAAAA

\* C5 as stated: a class IN type A query for any name with "ip6" in it yields
\* no answer and no authority record, whatever the store holds.
C5_Ip6NameNoAnswerForA ==
    \A h \in Slots : \A i \in Looked(h) :
        (/\ req[h].queryResourceRecords[i].Class = ClassINET
         /\ req[h].queryResourceRecords[i].Type = TypeA
         /\ Contains(req[h].queryResourceRecords[i].DomainName, S("ip6")))
        => NoAnswerForA(h, i)

\* C5 amended: a class IN type A query for a name with "ip6" and without "ip4"
\* in it yields no answer and no authority record, whatever the store holds;
\* the additional section holds at most records of type AAAA.
C5_Ip6OnlyNameNoAnswerForA ==
    \A h \in Slots : \A i \in Looked(h) :
        (/\ req[h].queryResourceRecords[i].Class = ClassINET
         /\ req[h].queryResourceRecords[i].Type = TypeA
         /\ Contains(req[h].queryResourceRecords[i].DomainName, S("ip6"))
         /\ ~Contains(req[h].queryResourceRecords[i].DomainName, S("ip4")))
        => NoAnswerForA(h, i)

\* bar.ip6 looked up as IN A with ::1 in the store: the response carries no
\* answer and one additional record.
C5_Witness ==
    \E h \in Slots :
        /\ Responded(h)
        /\ Len(req[h].got) = 1
        /\ req[h].queryResourceRecords[1].DomainName = S("bar.ip6")
        /\ req[h].queryResourceRecords[1].Type = TypeA
        /\ req[h].got[1].val = S("::1")
        /\ req[h].answerResourceRecords = <<>>
        /\ Len(req[h].additionalResourceRecords) = 1

\* C6: every response carries the transaction ID of its query and the flags
\* 0x8000: the response bit and nothing else, whatever the query's flags.
C6_IdEchoedFlagsResponseOnly ==
    \A h \in Slots : Responded(h) =>
        /\ SubSeq(req[h].sent[1].bytes, 1, 2) = SubSeq(req[h].requestBytes, 1, 2)
        /\ SubSeq(req[h].sent[1].bytes, 3, 4) = <<128, 0>>
        /\ req[h].response.header.TransactionID = req[h].queryHeader.TransactionID
        /\ req[h].response.header.Flags = FlagResponse

\* A response to the query with every flag bit set.
C6_Witness ==
    \E h \in Slots :
        /\ Responded(h)
        /\ req[h].queryHeader.Flags = 65535
        /\ req[h].queryHeader.TransactionID = 65535

\* Every lookup of slot h so far found the name absent.
AllAbsent(h) ==
    /\ req[h].got # <<>>
    /\ \A i \in Looked(h) : req[h].got[i].val = <<>>

\* C7: when every question names a domain the store does not hold, the
\* handler goes through to its response, which has NumAnswers 0, no authority
\* and no additional record, and flag bit 15 set.
C7_AbsentNameEmptyResponse ==
    \A h \in Slots : AllAbsent(h) =>
        /\ req[h].pc # "panic"
        /\ Gathered(h) = <<>>
        /\ (Responded(h) =>
              /\ Len(req[h].sent) = 1
              /\ WireHeader(h).NumAnswers = 0
              /\ WireHeader(h).NumAuthorities = 0
              /\ WireHeader(h).NumAdditionals = 0
              /\ WireHeader(h).Flags \div FlagResponse = 1
              /\ req[h].response.answers = 0
              /\ req[h].response.authorities = 0
              /\ req[h].response.additionals = 0)

\* A response to an IN A query for foo.ip4 that the store did not hold.
C7_Witness ==
    \E h \in Slots :
        /\ Responded(h)
        /\ AllAbsent(h)
        /\ req[h].got[1].consulted
        /\ req[h].queryResourceRecords[1].DomainName = S("foo.ip4")
        /\ req[h].queryResourceRecords[1].Type = TypeA

\* C8: every record that dbLookup makes has ResourceDataLength equal to the
\* number of bytes of its ResourceData.
C8_DataLengthMatchesData ==
    \A h \in Slots : \A k \in 1..Len(Gathered(h)) :
        Gathered(h)[k].ResourceDataLength = Len(Gathered(h)[k].ResourceData)

\* The labels of the name under the codec.
CodecLabels == Split(cName, 46)

\* C9: a name with no zero-length label, written by writeDomainName into an
\* empty buffer and read back by readDomainName, comes back as it was, with
\* no error and the buffer used up, whatever the length of its labels.
C9_NameRoundTrip ==
    (cPc = "done" /\ \A i \in 1..Len(CodecLabels) : Len(CodecLabels[i]) > 0)
    => /\ cOut.name = cName
       /\ ~cOut.err
       /\ cOut.buf = <<>>

\* C10: handlers do not depend on each other or on the receive loop: whatever
\* the others do, a handler whose lookups have returned can write its
\* response, and the loop can hand a datagram to a free slot.
C10_HandlersIndependent ==
    \A h \in Slots :
        /\ (req[h].pc = "respond" => ENABLED Respond(h))
        /\ (req[h].pc \in {"idle", "done"} =>
               \A d \in ConcDatagrams, c \in Clients : ENABLED Receive(h, d, c))

====
